---------------------------- MODULE Spec2Model ----------------------------
(***************************************************************************)
(* A model of kfit.py (SchusterLab/Common): the domain selector, the       *)
(* goodness-of-fit statistic, the two least-squares entry points and the   *)
(* fit wrappers built on them.                                             *)
(*                                                                         *)
(* Numbers.  A float is modelled as an extended rational <<n, d>>:         *)
(*   d > 0, gcd(n, d) = 1   the finite value n/d                           *)
(*   <<1, 0>>, <<-1, 0>>    +infinity, -infinity                           *)
(*   <<0, 0>>               NaN                                            *)
(* Rounding and signed zeros are not modelled.                             *)
(***************************************************************************)
EXTENDS Integers, Sequences, FiniteSets, TLC

VARIABLES
    fn,         \* the function of kfit.py that was called ("none" at start)
    xdata,      \* argument xdata
    ydata,      \* argument ydata
    domain,     \* argument domain: <<lo, hi>>, or <<>> for None
    ydatafit,   \* argument ydatafit of get_rsquare
    fitparams,  \* argument fitparams: [given |-> BOOLEAN, v |-> sequence]
    flags,      \* the boolean and label arguments of a fit call
    model,      \* the lineshape model the call fits ("" when it fits none)
    outcome,    \* what the optimizer did in the call (see LeastsqOutcomes)
    result,     \* what the call produced: [kind, exc, ...]
    events      \* what the call did, in order

vars == <<fn, xdata, ydata, domain, ydatafit, fitparams, flags, model, outcome,
          result, events>>

----------------------------------------------------------------------------
(* Bounds of the model *)

\* selectdomain: longest x sequence, largest x value
MaxLen == 3
MaxVal == 2
\* get_rsquare: longest y sequence, largest y value
MaxN == 3
MaxR == 1

----------------------------------------------------------------------------
(* Extended rational arithmetic (numpy float64 semantics for / by zero) *)

Abs(n) == IF n < 0 THEN -n ELSE n
Sign(n) == IF n < 0 THEN -1 ELSE IF n > 0 THEN 1 ELSE 0

RECURSIVE GCD(_, _)
GCD(a, b) == IF b = 0 THEN a ELSE GCD(b, a % b)

Norm(n, d) ==
    IF d = 0 THEN <<Sign(n), 0>>
    ELSE LET g == GCD(Abs(n), Abs(d))
         IN  <<(Sign(d) * Sign(n)) * (Abs(n) \div g), Abs(d) \div g>>

R(n) == <<n, 1>>
NaN == <<0, 0>>
PosInf == <<1, 0>>
NegInf == <<-1, 0>>
IsNaN(a) == a = NaN
IsInf(a) == a[2] = 0 /\ a[1] # 0
IsFinite(a) == a[2] > 0

FNeg(a) == <<-a[1], a[2]>>

FAdd(a, b) ==
    IF IsNaN(a) \/ IsNaN(b) THEN NaN
    ELSE IF IsInf(a) THEN (IF IsInf(b) /\ a # b THEN NaN ELSE a)
    ELSE IF IsInf(b) THEN b
    ELSE Norm(a[1] * b[2] + b[1] * a[2], a[2] * b[2])

FSub(a, b) == FAdd(a, FNeg(b))

FMul(a, b) ==
    IF IsNaN(a) \/ IsNaN(b) THEN NaN
    ELSE IF IsInf(a) \/ IsInf(b)
         THEN (IF a[1] = 0 \/ b[1] = 0 THEN NaN ELSE <<Sign(a[1]) * Sign(b[1]), 0>>)
    ELSE Norm(a[1] * b[1], a[2] * b[2])

\* numpy float64 division: x/0 is +-inf (0/0 is NaN) with a RuntimeWarning,
\* never an exception
FDiv(a, b) ==
    IF IsNaN(a) \/ IsNaN(b) THEN NaN
    ELSE IF IsInf(a) THEN (IF IsInf(b) THEN NaN
                           ELSE <<a[1] * (IF b[1] < 0 THEN -1 ELSE 1), 0>>)
    ELSE IF IsInf(b) THEN R(0)
    ELSE IF b[1] = 0 THEN <<Sign(a[1]), 0>>
    ELSE Norm(a[1] * b[2], a[2] * b[1])

FAbs(a) == <<Abs(a[1]), a[2]>>

\* a < b on floats; any comparison with NaN is false
FLess(a, b) ==
    /\ ~IsNaN(a) /\ ~IsNaN(b)
    /\ IF IsInf(a) THEN a = NegInf /\ b # NegInf
       ELSE IF IsInf(b) THEN b = PosInf
       ELSE a[1] * b[2] < b[1] * a[2]

FLeq(a, b) == ~IsNaN(a) /\ ~IsNaN(b) /\ ~FLess(b, a)

RECURSIVE sum(_)
sum(s) == IF s = <<>> THEN R(0) ELSE FAdd(s[1], sum(Tail(s)))

mean(s) == FDiv(sum(s), R(Len(s)))

----------------------------------------------------------------------------
(* Python values and call outcomes *)

\* the outcome of an evaluation: what it returned or raised, and what it
\* printed on the way
Return(v) == [kind |-> "return", exc |-> "", value |-> v, events |-> <<>>]
Raise(e) == [kind |-> "raise", exc |-> e, value |-> <<>>, events |-> <<>>]
\* the outcome r, reached after the events ev
After(ev, r) == [r EXCEPT !.events = ev \o @]
NoResult == [kind |-> "none", exc |-> "", value |-> <<>>]

\* s[i0:i1] with 0 <= i0, i1 (Python slice of a sequence)
Slice(s, i0, i1) ==
    LET hi == IF i1 > Len(s) THEN Len(s) ELSE i1
    IN  IF i0 >= hi THEN <<>> ELSE SubSeq(s, i0 + 1, hi)

----------------------------------------------------------------------------
(* DomainSelector *)

\* np.searchsorted(a, v), side='left': binary search for the insertion point
RECURSIVE binsearch(_, _, _, _)
binsearch(a, v, min_idx, max_idx) ==
    IF min_idx >= max_idx THEN min_idx
    ELSE LET mid_idx == min_idx + ((max_idx - min_idx) \div 2)
         IN  IF a[mid_idx + 1] < v
             THEN binsearch(a, v, mid_idx + 1, max_idx)
             ELSE binsearch(a, v, min_idx, mid_idx)

searchsorted(a, v) == binsearch(a, v, 0, Len(a))

argselectdomain(xd, dom) ==
    <<searchsorted(xd, dom[1]), searchsorted(xd, dom[2])>>

\* selectdomain with the slice starting one element late
selectdomain_skip(xd, yd, dom) ==
    LET i0 == searchsorted(xd, dom[1]) + 1
        i1 == searchsorted(xd, dom[2])
    IN  <<Slice(xd, i0, i1), Slice(yd, i0, i1)>>

selectdomain_inclusive(xd, yd, dom) ==
    LET i0 == searchsorted(xd, dom[1])
        i1 == searchsorted(xd, dom[2] + 1)
    IN  <<Slice(xd, i0, i1), Slice(yd, i0, i1)>>

selectdomain_right(xd, yd, dom) ==
    LET i0 == searchsorted(xd, dom[1] + 1)
        i1 == searchsorted(xd, dom[2] + 1)
    IN  <<Slice(xd, i0, i1), Slice(yd, i0, i1)>>

selectdomain(xd, yd, dom) ==
    LET ind == <<searchsorted(xd, dom[1]), searchsorted(xd, dom[2])>>
    IN  <<Slice(xd, ind[1], ind[2]), Slice(yd, ind[1], ind[2])>>

----------------------------------------------------------------------------
(* GoodnessOfFit *)

SqDev(s, c) == [i \in 1..Len(s) |-> FMul(FSub(s[i], c), FSub(s[i], c))]
SqDiff(s, t) == [i \in 1..Len(s) |-> FMul(FSub(s[i], t[i]), FSub(s[i], t[i]))]

get_rsquare_scalar_division(yd, yfit) ==
    LET ybar == mean(yd)
        total_sum_of_squares == sum(SqDev(yd, ybar))
        residual_sum_of_squares == sum(SqDiff(yd, yfit))
    IN  IF total_sum_of_squares = R(0) THEN Raise("ZeroDivisionError")
        ELSE Return(FSub(R(1), FDiv(residual_sum_of_squares, total_sum_of_squares)))

get_rsquare_swapped(yd, yfit) ==
    LET ybar == mean(yd)
        total_sum_of_squares == sum(SqDev(yd, ybar))
        residual_sum_of_squares == sum(SqDiff(yd, yfit))
    IN  Return(FSub(R(1), FDiv(total_sum_of_squares, residual_sum_of_squares)))

get_rsquare(yd, yfit) ==
    LET ybar == mean(yd)
        total_sum_of_squares == sum(SqDev(yd, ybar))
        residual_sum_of_squares == sum(SqDiff(yd, yfit))
    IN  Return(FSub(R(1), FDiv(residual_sum_of_squares, total_sum_of_squares)))

----------------------------------------------------------------------------
(* LineshapeModels.  Each operator gives the value of the model function at *)
(* one point x (numpy applies it to every element of the x array), or the  *)
(* exception the evaluation raises.  A parameter vector p is a sequence of *)
(* floats; Python's p[i] is p[i + 1].  A Gaussian keeps its exponential as *)
(* a term [amp, arg] standing for amp * e**arg.                            *)

Sq(a) == FMul(a, a)

RECURSIVE FPow(_, _)
FPow(a, n) == IF n = 0 THEN R(1) ELSE FMul(a, FPow(a, n - 1))

\* int(a / 3.) for an integer a: truncation towards zero
IntDiv3(a) == IF a >= 0 THEN a \div 3 ELSE -((-a) \div 3)

Lorentzian(x, amplitude, center, hwhm) ==
    FDiv(amplitude, FAdd(R(1), FDiv(Sq(FSub(x, center)), Sq(hwhm))))

lorfunc_better(x, p) ==
    IF Len(p) # 4 THEN Raise("TypeError")
    ELSE Return(FAdd(p[1], Lorentzian(x, p[2], p[3], p[4])))

lorfunc(p, x) ==
    IF Len(p) < 4 THEN Raise("IndexError")
    ELSE Return(FAdd(p[1], Lorentzian(x, p[2], p[3], p[4])))

Tc_default == <<6, 5>>

\* line 721: without a third parameter (any length but 3) kinfunc prints
\* "Assuming Tc = 1.20 K" each time it is called
kinfunc(p, x) ==
    IF Len(p) < 2 THEN Raise("IndexError")
    ELSE LET f0 == p[1]
             alpha == p[2]
             Tc == IF Len(p) = 3 THEN p[3] ELSE Tc_default
         IN  After(IF Len(p) = 3 THEN <<>> ELSE <<"print">>,
                   Return(FMul(f0, FSub(R(1),
                       FDiv(FMul(FDiv(alpha, R(2)), R(1)),
                            FSub(R(1), FPow(FDiv(x, Tc), 4)))))))

twolorfunc(p, x) ==
    IF Len(p) < 7 THEN Raise("IndexError")
    ELSE Return(FAdd(FAdd(p[1], Lorentzian(x, p[2], p[3], p[4])),
                     Lorentzian(x, p[5], p[6], p[7])))

\* amp * e**(-1./2.*(x-center)**2/sigma**2)
GaussTerm(x, amp, center, sigma) ==
    [amp |-> amp,
     arg |-> FDiv(FMul(FDiv(R(-1), R(2)), Sq(FSub(x, center))), Sq(sigma))]

gaussfunc(p, x) ==
    IF Len(p) < 4 THEN Raise("IndexError")
    ELSE Return([offset |-> p[1], terms |-> <<GaussTerm(x, p[2], p[3], p[4])>>])

gaussfunc_nooffset(p, x) ==
    IF Len(p) < 3 THEN Raise("IndexError")
    ELSE Return([offset |-> R(0), terms |-> <<GaussTerm(x, p[1], p[2], p[3])>>])

Ngaussfunc(p, x) ==
    LET N == IntDiv3(Len(p) - 1)
    IN  IF Len(p) < 1 THEN Raise("IndexError")
        ELSE Return([offset |-> p[1],
                     terms |-> [n \in 1..N |->
                         GaussTerm(x, p[3 * (n - 1) + 2], p[3 * (n - 1) + 3],
                                   p[3 * (n - 1) + 4])]])

Ngaussfunc_no_offset(p, x) ==
    LET N == IntDiv3(Len(p) - 1)
    IN  Return([offset |-> R(0),
                terms |-> [n \in 1..N |->
                    GaussTerm(x, p[3 * (n - 1) + 2], p[3 * (n - 1) + 3],
                              p[3 * (n - 1) + 4])]])

hangerfunc(p, x) ==
    IF Len(p) # 5 THEN Raise("ValueError")
    ELSE LET f0 == p[1]
             Qi == p[2]
             Qc == p[3]
             df == p[4]
             scale == p[5]
             a == FDiv(FSub(x, FAdd(f0, df)), FAdd(f0, df))
             b == FDiv(FMul(R(2), df), f0)
             Q0 == FDiv(R(1), FAdd(FDiv(R(1), Qi), FDiv(R(1), Qc)))
             num == FAdd(FAdd(FMul(FMul(R(-2), Q0), Qc), Sq(Qc)),
                         FMul(Sq(Q0), FAdd(R(1),
                             FMul(Sq(Qc), Sq(FAdd(FMul(R(2), a), b))))))
             den == FMul(Sq(Qc), FAdd(R(1), FMul(FMul(R(4), Sq(Q0)), Sq(a))))
         IN  Return(FDiv(FMul(scale, num), den))

parabolafunc(x, p) ==
    IF Len(p) < 3 THEN Raise("IndexError")
    ELSE Return(FAdd(p[1], FMul(p[2], Sq(FSub(x, p[3])))))

RECURSIVE PolySum(_, _, _)
PolySum(p, x, n) ==
    IF n > Len(p) THEN R(0)
    ELSE FAdd(FMul(p[n], FPow(x, n - 1)), PolySum(p, x, n + 1))

polyfunc_v2(x, p) == Return(PolySum(p, x, 1))

\* fitfunc(p, x) for the functions handed to fitgeneral, fitfunc(x, *p) for
\* those handed to fitbetter
CallFitfunc(fitfunc, p, x) ==
    CASE fitfunc = "kinfunc" -> kinfunc(p, x)
      [] fitfunc = "twolorfunc" -> twolorfunc(p, x)
      [] fitfunc = "gaussfunc" -> gaussfunc(p, x)
      [] fitfunc = "gaussfunc_nooffset" -> gaussfunc_nooffset(p, x)
      [] fitfunc = "Ngaussfunc" -> Ngaussfunc(p, x)
      [] fitfunc = "Ngaussfunc_no_offset" -> Ngaussfunc_no_offset(p, x)
      [] fitfunc = "hangerfunc" -> hangerfunc(p, x)
      [] fitfunc = "lorfunc" -> lorfunc(p, x)
      [] fitfunc = "lorfunc_better" -> lorfunc_better(x, p)
      [] fitfunc = "parabolafunc" -> parabolafunc(x, p)
      [] fitfunc = "polyfunc_v2" -> polyfunc_v2(x, p)

\* the model on a whole x array: one call.  Whether it raises and what it
\* prints does not depend on x, so both are probed at 0 (an empty array too).
Collect(vals, n) ==
    IF vals[0].kind = "raise" THEN vals[0]
    ELSE After(vals[0].events, Return([i \in 1..n |-> vals[i].value]))

Evaluate(fitfunc, p, xs) ==
    Collect([i \in 0..Len(xs) |->
                CallFitfunc(fitfunc, p, IF i = 0 THEN R(0) ELSE R(xs[i]))], Len(xs))

----------------------------------------------------------------------------
(* The optimizer (scipy.optimize).  What it computes is not modelled: its  *)
(* outcome opt is chosen by the caller of these operators.                 *)
(*   opt.sign  the sign of every entry of the parameter estimate           *)
(*   opt.ier   MINPACK's status: 1..4 converged, 5 iteration limit reached *)
(*   opt.cov   the covariance estimate: "finite", "inf_matrix" (a matrix   *)
(*             filled with inf) or "inf_scalar" (the scalar inf that older *)
(*             scipy returns when the covariance cannot be estimated)      *)
(*   opt.extra the evaluations of the fit function it makes beyond the     *)
(*             n + 2 that every run on n parameters makes                  *)

\* the most evaluations beyond n + 2 that are followed
MaxExtra == 1

\* leastsq reports a status and no covariance: it returns whatever ier is
LeastsqOutcomes ==
    [sign : {-1, 1}, ier : {1, 5}, cov : {"finite"}, extra : 0..MaxExtra]

\* curve_fit raises unless ier is in 1..4
CurveFitOutcomes ==
    [sign : {-1, 1}, ier : {1}, cov : {"finite", "inf_matrix", "inf_scalar"},
     extra : 0..MaxExtra]
    \cup [sign : {1}, ier : {5}, cov : {"finite"}, extra : 0..MaxExtra]

Popt(opt, n) == [i \in 1..n |-> R(opt.sign * i)]

Pcov(opt, n) ==
    CASE opt.cov = "finite" -> [kind |-> "matrix", diag |-> [i \in 1..n |-> R(i * i)]]
      [] opt.cov = "inf_matrix" -> [kind |-> "matrix", diag |-> [i \in 1..n |-> PosInf]]
      [] opt.cov = "inf_scalar" -> [kind |-> "scalar", diag |-> <<>>]

\* what k evaluations print, when one prints ev
Evaluations(ev, k) == [i \in 1..(k * Len(ev)) |-> ev[((i - 1) % Len(ev)) + 1]]

\* MINPACK's lmdif, given the evaluation at the start vector (first), n
\* parameters and m data points.  The start vector is evaluated once to find
\* m, and more parameters than points is rejected after that.  A run then
\* evaluates the start vector again, once per parameter for the
\* forward-difference Jacobian, and opt.extra times more: n + 2 + opt.extra
\* evaluations, each printing what the first does.
minpack(first, n, m, opt) ==
    IF first.kind = "raise" THEN first
    ELSE IF n > m THEN After(first.events, Raise("TypeError"))
    ELSE After(Evaluations(first.events, n + 2 + opt.extra),
               Return([popt |-> Popt(opt, n), pcov |-> Pcov(opt, n), ier |-> opt.ier]))

\* optimize.leastsq(errfunc, x0, args=(x, y)): returns (estimate, ier)
leastsq(fitfunc, x0, xs, ys, opt) ==
    minpack(Evaluate(fitfunc, x0, xs), Len(x0), Len(xs), opt)

\* the number of parameters curve_fit finds in the signature of a fit
\* function when p0 is None; 0 when it cannot (a *p signature)
SignatureParams(fitfunc) == IF fitfunc = "lorfunc_better" THEN 4 ELSE 0

\* a failure to converge is a RuntimeError in curve_fit
curve_fit_result(lm) ==
    IF lm.kind = "raise" THEN lm
    ELSE IF lm.value.ier \notin 1..4 THEN After(lm.events, Raise("RuntimeError"))
    ELSE lm

curve_fit_lm(fitfunc, xs, start, opt) ==
    curve_fit_result(minpack(Evaluate(fitfunc, start, xs), Len(start), Len(xs), opt))

\* optimize.curve_fit(f, x, y, p0): returns (estimate, covariance)
curve_fit(fitfunc, xs, ys, p0, opt) ==
    IF ~p0.given /\ SignatureParams(fitfunc) = 0 THEN Raise("ValueError")
    ELSE curve_fit_lm(fitfunc, xs,
                      IF p0.given THEN p0.v
                      ELSE [i \in 1..SignatureParams(fitfunc) |-> R(1)], opt)

ISqrt(n) == CHOOSE k \in 0..n : k * k = n

\* np.sqrt
FSqrt(a) ==
    IF IsNaN(a) \/ a[1] < 0 THEN NaN
    ELSE IF IsInf(a) THEN PosInf
    ELSE <<ISqrt(a[1]), ISqrt(a[2])>>

\* np.sqrt(np.diag(covmatrix)): np.diag rejects a scalar
sqrt_diag(covmatrix) ==
    IF covmatrix.kind # "matrix" THEN Raise("ValueError")
    ELSE Return([i \in 1..Len(covmatrix.diag) |-> FSqrt(covmatrix.diag[i])])

----------------------------------------------------------------------------
(* LeastSquaresEngine: fitgeneral and fitbetter.                           *)
(* A call's outcome is [kind, exc, value, events]; value is what is        *)
(* returned, events what was called on the way, in order.                  *)

NoValue == [shape |-> "", params |-> <<>>, errors |-> <<>>, err |-> "", success |-> 0]
PyNone == [NoValue EXCEPT !.shape = "None"]
\* a bare parameter vector
Vector(p) == [NoValue EXCEPT !.shape = "vector", !.params = p]
\* (bestfitparams, fitparam_errors)
Tuple2(p, e) == [NoValue EXCEPT !.shape = "tuple2", !.params = p, !.errors = e]
\* (bestfitparams, err, success): err is the float math.fsum of the residuals
Tuple3(p, success) ==
    [NoValue EXCEPT !.shape = "tuple3", !.params = p, !.err = "float", !.success = success]

Ok(v, ev) == [kind |-> "return", exc |-> "", value |-> v, events |-> ev]
Fail(e, ev) == [kind |-> "raise", exc |-> e, value |-> NoValue, events |-> ev]

\* the outcome r of a call made after the events ev, passed on unchanged
Through(ev, r) ==
    IF r.kind = "raise" THEN Fail(r.exc, ev \o r.events) ELSE Ok(r.value, ev \o r.events)

Given(v) == [given |-> TRUE, v |-> v]

\* lines 64-68, 93-97, 150-154, ...: the data the fit runs on
Restrict(xd, yd, dom) == IF dom # <<>> THEN selectdomain(xd, yd, dom) ELSE <<xd, yd>>
RestrictEvents(dom) == IF dom # <<>> THEN <<"selectdomain">> ELSE <<>>

\* fitgeneral returning a standard-error vector under show_diagnostics
fitgeneral_return_errors(fl, ev, ls, bestfit) ==
    IF ls.kind = "raise" THEN Fail(ls.exc, ev \o ls.events)
    ELSE IF fl.showfit THEN Fail("NameError", ev \o ls.events)
    ELSE IF bestfit.kind = "raise" THEN Fail(bestfit.exc, ev \o ls.events)
    ELSE IF fl.show_diagnostics
         THEN Ok(Tuple2(ls.value.popt, [i \in 1..Len(ls.value.popt) |-> R(0)]),
                 ev \o ls.events \o bestfit.events)
         ELSE Ok(Vector(ls.value.popt), ev \o ls.events \o bestfit.events)

\* lines 73-85, given what leastsq did (ls) and the evaluation of the fit
\* function at the estimate (bestfit) that line 80 makes for err
fitgeneral_return(fl, ev, ls, bestfit) ==
    IF ls.kind = "raise" THEN Fail(ls.exc, ev \o ls.events)
    \* lines 73-79: plt is not a name of the module (pyplot is imported as plt2)
    ELSE IF fl.showfit THEN Fail("NameError", ev \o ls.events)
    ELSE IF bestfit.kind = "raise" THEN Fail(bestfit.exc, ev \o ls.events)
    ELSE IF fl.show_diagnostics
         THEN Ok(Tuple3(ls.value.popt, ls.value.ier),
                 ev \o ls.events \o bestfit.events)
         ELSE Ok(Vector(ls.value.popt), ev \o ls.events \o bestfit.events)

\* lines 70-72 on the restricted data; startparams[:] fails on None
fitgeneral_fit(fitfunc, fp, fl, opt, fitdata, ev) ==
    IF ~fp.given THEN Fail("TypeError", ev)
    ELSE fitgeneral_return(fl, ev \o <<"leastsq">>,
                           leastsq(fitfunc, fp.v, fitdata[1], fitdata[2], opt),
                           Evaluate(fitfunc, Popt(opt, Len(fp.v)), fitdata[1]))

fitgeneral(xd, yd, fitfunc, fp, dom, fl, opt) ==
    fitgeneral_fit(fitfunc, fp, fl, opt, Restrict(xd, yd, dom),
                   <<"fitgeneral">> \o RestrictEvents(dom))

\* lines 116-119; fitparam_errors is unbound when line 103 raised
fitbetter_return(fl, bestfitparams, fitparam_errors, ev) ==
    IF fl.show_diagnostics
    THEN (IF fitparam_errors.kind = "raise" THEN Fail("UnboundLocalError", ev)
          ELSE Ok(Tuple2(bestfitparams, fitparam_errors.value), ev))
    ELSE Ok(Vector(bestfitparams), ev)

\* lines 108-114, given the start curve (startfit); line 114 calls plt.legend
\* and plt is not a name of the module
fitbetter_show(fl, bestfitparams, fitparam_errors, ev, startfit) ==
    IF ~fl.showfit THEN fitbetter_return(fl, bestfitparams, fitparam_errors, ev)
    ELSE IF fl.showstartfit /\ startfit.kind = "raise"
         THEN Fail(startfit.exc, ev \o (IF fl.showdata THEN <<"plot data">> ELSE <<>>))
    ELSE IF fl.label # ""
         THEN Fail("NameError",
                   ev \o (IF fl.showdata THEN <<"plot data">> ELSE <<>>)
                      \o (IF fl.showstartfit THEN <<"plot startfit">> ELSE <<>>)
                      \o <<"plot fit">>)
    ELSE fitbetter_return(fl, bestfitparams, fitparam_errors,
                   ev \o (IF fl.showdata THEN <<"plot data">> ELSE <<>>)
                      \o (IF fl.showstartfit THEN <<"plot startfit">> ELSE <<>>)
                      \o <<"plot fit">>)

\* lines 102-106: on failure two prints, and nothing is assigned
fitbetter_errors(fitfunc, fp, fl, fitdata, ev, bestfitparams, fitparam_errors) ==
    fitbetter_show(fl, bestfitparams, fitparam_errors,
                   ev \o (IF fitparam_errors.kind = "raise"
                          THEN <<"print", "print">> ELSE <<>>),
                   IF fp.given THEN Evaluate(fitfunc, fp.v, fitdata[1])
                   ELSE Raise("TypeError"))

\* lines 100-119, given what curve_fit did (cf)
fitbetter_fitted(fitfunc, fp, fl, fitdata, ev, cf) ==
    IF cf.kind = "raise" THEN Fail(cf.exc, ev \o cf.events)
    ELSE fitbetter_errors(fitfunc, fp, fl, fitdata, ev \o cf.events, cf.value.popt,
                          sqrt_diag(cf.value.pcov))

fitbetter(xd, yd, fitfunc, fp, dom, fl, opt) ==
    fitbetter_fitted(fitfunc, fp, fl, Restrict(xd, yd, dom),
                     <<"fitbetter">> \o RestrictEvents(dom) \o <<"curve_fit">>,
                     curve_fit(fitfunc, Restrict(xd, yd, dom)[1],
                               Restrict(xd, yd, dom)[2], fp, opt))

----------------------------------------------------------------------------
(* InitialGuessHeuristics *)

Floats(s) == [i \in 1..Len(s) |-> R(s[i])]

\* Python's max and min go through the sequence from the left and replace
\* the value kept (m) only by an element that compares greater (less); every
\* comparison with NaN is false
RECURSIVE max_from(_, _)
max_from(m, s) ==
    IF s = <<>> THEN m ELSE max_from(IF FLess(m, s[1]) THEN s[1] ELSE m, Tail(s))

RECURSIVE min_from(_, _)
min_from(m, s) ==
    IF s = <<>> THEN m ELSE min_from(IF FLess(s[1], m) THEN s[1] ELSE m, Tail(s))

\* max(s), min(s) for non-empty s
fmax(s) == max_from(s[1], Tail(s))
fmin(s) == min_from(s[1], Tail(s))

\* the first position (1-based) at which s holds v
FirstAt(s, v) == CHOOSE i \in 1..Len(s) : s[i] = v /\ \A j \in 1..(i - 1) : s[j] # v

HasNaN(s) == \E i \in 1..Len(s) : IsNaN(s[i])

\* np.argmax, np.argmin: the index (0-based) of the first NaN if there is
\* one, else of the first occurrence of the largest (smallest) value
argmax(s) == (IF HasNaN(s) THEN FirstAt(s, NaN) ELSE FirstAt(s, fmax(s))) - 1
argmin(s) == (IF HasNaN(s) THEN FirstAt(s, NaN) ELSE FirstAt(s, fmin(s))) - 1

\* the guess with the center read at the minimum of y
peak_guess_of_argmin(x, y, width) ==
    IF Len(y) = 0 THEN Raise("IndexError")
    ELSE Return(<<FDiv(FAdd(y[1], y[Len(y)]), R(2)),
                  FSub(fmax(y), fmin(y)),
                  x[argmin(y) + 1],
                  FDiv(FSub(fmax(x), fmin(x)), R(width))>>)

\* lines 156-160 (width = 10) and 413-417 (width = 3) on float data
peak_guess_of(x, y, width) ==
    IF Len(y) = 0 THEN Raise("IndexError")
    ELSE Return(<<FDiv(FAdd(y[1], y[Len(y)]), R(2)),
                  FSub(fmax(y), fmin(y)),
                  x[argmax(y) + 1],
                  FDiv(FSub(fmax(x), fmin(x)), R(width))>>)

peak_guess(fitdatax, fitdatay, width) ==
    peak_guess_of(Floats(fitdatax), Floats(fitdatay), width)

\* lines 455-459
hanger_Q(f0, Q0, ymax) ==
    <<f0, FAbs(FMul(Q0, FAdd(R(1), ymax))),
      FAbs(FDiv(FMul(Q0, FAdd(R(1), ymax)), ymax)), R(0), ymax>>

\* lines 451-459 on float data; np.argmin rejects an empty array
hanger_guess_of(x, y) ==
    IF Len(y) = 0 THEN Raise("ValueError")
    ELSE Return(hanger_Q(x[argmin(y) + 1],
                         FAbs(FDiv(x[argmin(y) + 1],
                                   FDiv(FSub(fmax(x), fmin(x)), R(3)))),
                         FDiv(FAdd(y[1], y[Len(y)]), R(2))))

hanger_guess(fitdatax, fitdatay) ==
    hanger_guess_of(Floats(fitdatax), Floats(fitdatay))

----------------------------------------------------------------------------
(* FitWrappers.  Each wrapper W is W(xdata, ydata, fitparams, domain, fl,  *)
(* opt); W_fit is its body on the restricted data.                         *)

BaseFlags ==
    [showfit |-> FALSE, showstartfit |-> FALSE, showdata |-> TRUE, label |-> "",
     show_diagnostics |-> FALSE, verbose |-> TRUE, Tc_fixed |-> FALSE,
     no_offset |-> FALSE, printresult |-> FALSE]

Prints(n) == [i \in 1..n |-> "print"]

\* the start vector: the caller's, or the heuristic's guess
StartParams(fp, guess) == IF fp.given THEN Return(fp.v) ELSE guess
GuessEvents(fp) == IF fp.given THEN <<>> ELSE <<"guess">>
\* lines 200-201, 231-232, 261-262
MissingEvents(fp) == IF fp.given THEN <<>> ELSE <<"print">>

\* fitlor without line 172
fitlor_return_raw(fl, ev, fb) ==
    IF fb.kind = "raise" THEN Fail(fb.exc, ev \o fb.events)
    ELSE Ok(Tuple2(fb.value.params, fb.value.errors),
            ev \o fb.events \o (IF fl.verbose THEN Prints(4) ELSE <<>>))

\* lines 166-176, given what fitbetter did (fb)
fitlor_return(fl, ev, fb) ==
    IF fb.kind = "raise" THEN Fail(fb.exc, ev \o fb.events)
    ELSE Ok(Tuple2([fb.value.params EXCEPT ![4] = FAbs(@)], fb.value.errors),
            ev \o fb.events \o (IF fl.verbose THEN Prints(4) ELSE <<>>))

\* lines 155-164
fitlor_fit(start, fl, opt, fitdata, ev) ==
    IF start.kind = "raise" THEN Fail(start.exc, ev)
    ELSE fitlor_return(fl, ev,
            fitbetter(fitdata[1], fitdata[2], "lorfunc_better", Given(start.value),
                      <<>>, [fl EXCEPT !.show_diagnostics = TRUE], opt))

fitlor(xd, yd, fp, dom, fl, opt) ==
    fitlor_fit(StartParams(fp, peak_guess(Restrict(xd, yd, dom)[1],
                                          Restrict(xd, yd, dom)[2], 10)),
               fl, opt, Restrict(xd, yd, dom),
               <<"fitlor">> \o RestrictEvents(dom) \o GuessEvents(fp))

\* lines 203-208; fitparams[:2] fails on None
fit_kinetic_fraction_fit(fp, fl, opt, fitdata, ev) ==
    IF fl.Tc_fixed /\ ~fp.given THEN Fail("TypeError", ev)
    ELSE Through(ev,
            fitgeneral(fitdata[1], fitdata[2], "kinfunc",
                       IF fl.Tc_fixed THEN Given(Slice(fp.v, 0, 2)) ELSE fp,
                       <<>>, [fl EXCEPT !.show_diagnostics = FALSE], opt))

fit_kinetic_fraction(xd, yd, fp, dom, fl, opt) ==
    fit_kinetic_fraction_fit(fp, fl, opt, Restrict(xd, yd, dom),
        <<"fit_kinetic_fraction">> \o RestrictEvents(dom) \o MissingEvents(fp))

\* lines 234-235 pass no_offset=False to fitgeneral, which has no such
\* parameter: the call fails before fitgeneral's body runs
fit_double_lor(xd, yd, fp, dom, fl, opt) ==
    Fail("TypeError", <<"fit_double_lor">> \o RestrictEvents(dom) \o MissingEvents(fp))

\* lines 264-270
fit_N_gauss_fit(fp, fl, opt, fitdata, ev) ==
    Through(ev,
        fitgeneral(fitdata[1], fitdata[2],
                   IF fl.no_offset THEN "Ngaussfunc_no_offset" ELSE "Ngaussfunc",
                   fp, <<>>, [fl EXCEPT !.show_diagnostics = FALSE], opt))

fit_N_gauss(xd, yd, fp, dom, fl, opt) ==
    fit_N_gauss_fit(fp, fl, opt, Restrict(xd, yd, dom),
        <<"fit_N_gauss">> \o RestrictEvents(dom) \o MissingEvents(fp))

\* lines 419-427
fitgauss_fit(start, fl, opt, fitdata, ev) ==
    IF start.kind = "raise" THEN Fail(start.exc, ev)
    ELSE Through(ev,
            fitgeneral(fitdata[1], fitdata[2],
                       IF fl.no_offset THEN "gaussfunc_nooffset" ELSE "gaussfunc",
                       Given(IF fl.no_offset /\ Len(start.value) > 3
                             THEN Tail(start.value) ELSE start.value),
                       <<>>, [fl EXCEPT !.show_diagnostics = FALSE], opt))

fitgauss(xd, yd, fp, dom, fl, opt) ==
    fitgauss_fit(StartParams(fp, peak_guess(Restrict(xd, yd, dom)[1],
                                            Restrict(xd, yd, dom)[2], 3)),
                 fl, opt, Restrict(xd, yd, dom),
                 <<"fitgauss">> \o RestrictEvents(dom) \o GuessEvents(fp))

\* line 462
fithanger_return(fl, r) ==
    IF r.kind = "return" /\ fl.printresult
    THEN Ok(r.value, r.events \o <<"print">>) ELSE r

\* lines 460-461: the domain is passed on, so fitgeneral selects again
fithanger_fit(start, dom, fl, opt, fitdata, ev) ==
    IF start.kind = "raise" THEN Fail(start.exc, ev)
    ELSE fithanger_return(fl, Through(ev,
            fitgeneral(fitdata[1], fitdata[2], "hangerfunc", Given(start.value),
                       dom, [fl EXCEPT !.show_diagnostics = FALSE], opt)))

fithanger(xd, yd, fp, dom, fl, opt) ==
    fithanger_fit(StartParams(fp, hanger_guess(Restrict(xd, yd, dom)[1],
                                               Restrict(xd, yd, dom)[2])),
                  dom, fl, opt, Restrict(xd, yd, dom),
                  <<"fithanger">> \o RestrictEvents(dom) \o GuessEvents(fp))

\* lines 493-501 and 670-678: two header lines and one line per parameter
report_return(fl, ev, fb) ==
    IF fb.kind = "raise" THEN Fail(fb.exc, ev \o fb.events)
    ELSE Ok(Tuple2(fb.value.params, fb.value.errors),
            ev \o fb.events
               \o (IF fl.verbose THEN Prints(2 + Len(fb.value.params)) ELSE <<>>))

\* lines 480-501; without fitparams a message is printed and None returned
fit_parabola(xd, yd, fp, dom, fl, opt) ==
    IF ~fp.given THEN Ok(PyNone, <<"fit_parabola", "print">>)
    ELSE report_return(fl, <<"fit_parabola">> \o RestrictEvents(dom),
            fitbetter(Restrict(xd, yd, dom)[1], Restrict(xd, yd, dom)[2],
                      "parabolafunc", fp, <<>>,
                      [fl EXCEPT !.show_diagnostics = TRUE], opt))

\* lines 657-678; without fitparams a message is printed and None returned
fitpoly(xd, yd, fp, dom, fl, opt) ==
    IF ~fp.given THEN Ok(PyNone, <<"fitpoly", "print">>)
    ELSE report_return(fl, <<"fitpoly">> \o RestrictEvents(dom),
            fitbetter(Restrict(xd, yd, dom)[1], Restrict(xd, yd, dom)[2],
                      "polyfunc_v2", fp, <<>>,
                      [fl EXCEPT !.show_diagnostics = TRUE], opt))

----------------------------------------------------------------------------
(* Input sets *)

IsSorted(s) == \A i \in 1..(Len(s) - 1) : s[i] <= s[i + 1]

SeqsUpTo(S, n) == UNION {[1..k -> S] : k \in 0..n}

NoParams == [given |-> FALSE, v |-> <<>>]

\* no optimizer has run
NoOutcome == [sign |-> 0, ier |-> 0, cov |-> "", extra |-> 0]

----------------------------------------------------------------------------
(* Specification SpecSelect: one call of selectdomain on sorted x *)

InitSelect ==
    /\ fn = "none"
    /\ xdata \in {s \in SeqsUpTo(0..MaxVal, MaxLen) : IsSorted(s)}
    /\ ydata \in [1..Len(xdata) -> {0, 1}]
    /\ domain \in (-1..(MaxVal + 1)) \X (-1..(MaxVal + 1))
    /\ ydatafit = <<>>
    /\ fitparams = NoParams
    /\ flags = BaseFlags
    /\ model = ""
    /\ outcome = NoOutcome
    /\ result = NoResult
    /\ events = <<>>

CallSelectdomain ==
    /\ fn = "none"
    /\ fn' = "selectdomain"
    /\ result' = Return(selectdomain(xdata, ydata, domain))
    /\ UNCHANGED <<xdata, ydata, domain, ydatafit, fitparams, flags, model,
                   outcome, events>>

NextSelect == CallSelectdomain

SpecSelect == InitSelect /\ [][NextSelect]_vars

----------------------------------------------------------------------------
(* Specification SpecRsquare: one call of get_rsquare on equal-length data *)

RVals == {R(v) : v \in 0..MaxR}

InitRsquare ==
    /\ fn = "none"
    /\ xdata = <<>>
    /\ ydata \in SeqsUpTo(RVals, MaxN)
    /\ ydatafit \in [1..Len(ydata) -> RVals \cup {mean(ydata)}]
    /\ domain = <<>>
    /\ fitparams = NoParams
    /\ flags = BaseFlags
    /\ model = ""
    /\ outcome = NoOutcome
    /\ result = NoResult
    /\ events = <<>>

CallGetRsquare ==
    /\ fn = "none"
    /\ fn' = "get_rsquare"
    /\ result' = get_rsquare(ydata, ydatafit)
    /\ UNCHANGED <<xdata, ydata, domain, ydatafit, fitparams, flags, model,
                   outcome, events>>

NextRsquare == CallGetRsquare

SpecRsquare == InitRsquare /\ [][NextRsquare]_vars

----------------------------------------------------------------------------
(* Specification Spec: one call of a fit function on arguments drawn at    *)
(* the start.  No state survives a call, so one call shows all there is.   *)

\* the most data points of a fit call
MaxPts == 7

Grid(L) == [i \in 1..L |-> i - 1]
\* one peak, at the k-th grid point
PeakData(L, k) == [i \in 1..L |-> IF i = k THEN 3 ELSE 1]

\* no data, two points, and MaxPts points with the peak first, in the middle
\* and last
Datasets ==
    {<< <<>>, <<>> >>, <<Grid(2), PeakData(2, 1)>>}
    \cup {<<Grid(MaxPts), PeakData(MaxPts, k)>> : k \in {1, (MaxPts + 1) \div 2, MaxPts}}

\* None, a range inside the grid, a range past its end
Domains == {<<>>, <<1, MaxPts - 1>>, <<MaxPts, MaxPts + 1>>}

StartVector(n) == [i \in 1..n |-> R(i)]
\* the longest parameter vector tried (twolorfunc takes 7 parameters)
MaxParams == 7
ParamChoices == {NoParams} \cup {Given(StartVector(n)) : n \in 1..MaxParams}

Labels == {"", "a"}

\* showfit, showstartfit, label: arguments of every wrapper
PlotFlags ==
    {[BaseFlags EXCEPT !.showfit = a, !.showstartfit = b, !.label = l] :
        a \in BOOLEAN, b \in BOOLEAN, l \in Labels}

\* the arguments every fit function takes: data, domain, fitparams and the
\* plot flags
Init ==
    /\ fn = "none"
    /\ \E d \in Datasets : xdata = d[1] /\ ydata = d[2]
    /\ domain \in Domains
    /\ ydatafit = <<>>
    /\ fitparams \in ParamChoices
    /\ flags \in PlotFlags
    /\ model = ""
    /\ outcome = NoOutcome
    /\ result = NoResult
    /\ events = <<>>

\* fitparams is None or has one of these lengths (the lengths an action tries)
Tried(lens) == ~fitparams.given \/ Len(fitparams.v) \in lens

\* Element writes.  The subscript assignments and in-place updates of a call
\* are [obj, idx, val], where obj names the list or array written:
\* "xdata", "ydata" and "fitparams" are the caller's, every other object is
\* made during the call.
Write(obj, idx, val) == [obj |-> obj, idx |-> idx, val |-> val]

\* lines 156-160 and 412-416: fitparams=[0,0,0,0] binds a new list, which is
\* then filled in place
guess_stores(guess) ==
    IF guess.kind = "raise" THEN <<>>
    ELSE [i \in 1..4 |-> Write("guess", i - 1, guess.value[i])]

\* an optimizer working in place on the start vector it is given
estimate_object_inplace(fp) == IF fp.given THEN "fitparams" ELSE "guess"

\* the array the optimizer leaves its estimate in: leastsq (line 72) and
\* curve_fit (line 100) copy the start vector they are given and return an
\* array of their own.  (startparams[:] at line 72 is a copy of a list, but
\* a view of an array: it is the optimizer's copy that keeps the caller's.)
estimate_object(fp) == "popt"

estimate_stores(fp, popt) ==
    [i \in 1..Len(popt) |-> Write(estimate_object(fp), i - 1, popt[i])]

\* line 172: p1[3]=abs(p1[3]), on the array fitbetter returned
abs_store(fp, popt) == <<Write(estimate_object(fp), 3, FAbs(popt[4]))>>

\* the writes of the call name(...) that ended as r
call_stores(name, fp, guess, opt, r) ==
    (IF name \in {"fitlor", "fitgauss"} /\ ~fp.given THEN guess_stores(guess) ELSE <<>>)
    \o (IF r.kind = "return" /\ r.value.shape # "None"
        THEN estimate_stores(fp, Popt(opt, Len(r.value.params))) ELSE <<>>)
    \o (IF name = "fitlor" /\ r.kind = "return"
        THEN abs_store(fp, Popt(opt, 4)) ELSE <<>>)

\* the sequence s, held by the object obj, after the writes
RECURSIVE Store(_, _, _)
Store(obj, stores, s) ==
    IF stores = <<>> THEN s
    ELSE Store(obj, Tail(stores),
               IF Head(stores).obj = obj /\ Head(stores).idx < Len(s)
               THEN [s EXCEPT ![Head(stores).idx + 1] = Head(stores).val]
               ELSE s)

\* the caller's xdata, ydata and fitparams after the writes
Written(stores) ==
    /\ xdata' = Store("xdata", stores, xdata)
    /\ ydata' = Store("ydata", stores, ydata)
    /\ fitparams' = [fitparams EXCEPT !.v = Store("fitparams", stores, @)]

\* the call name(xdata, ydata, fitparams, domain, fl), fitting the model f
\* with an optimizer that does opt, ended as r
Called(name, f, fl, opt, r) ==
    /\ fn' = name
    /\ model' = f
    /\ flags' = fl
    /\ outcome' = opt
    /\ result' = [kind |-> r.kind, exc |-> r.exc, value |-> r.value]
    /\ events' = r.events
    /\ Written(call_stores(name, fitparams,
                           peak_guess(Restrict(xdata, ydata, domain)[1],
                                      Restrict(xdata, ydata, domain)[2],
                                      IF name = "fitlor" THEN 10 ELSE 3),
                           opt, r))
    /\ UNCHANGED <<domain, ydatafit>>

CallFitgeneral ==
    /\ fn = "none"
    /\ Tried({3, 5})
    /\ \E f \in {"kinfunc", "hangerfunc"}, sd \in BOOLEAN, diag \in BOOLEAN,
          opt \in LeastsqOutcomes :
        Called("fitgeneral", f,
               [flags EXCEPT !.showdata = sd, !.show_diagnostics = diag], opt,
               fitgeneral(xdata, ydata, f, fitparams, domain,
                          [flags EXCEPT !.showdata = sd, !.show_diagnostics = diag],
                          opt))

CallFitbetter ==
    /\ fn = "none"
    /\ Tried({3, 4})
    /\ \E f \in {"lorfunc_better", "parabolafunc"}, sd \in BOOLEAN, diag \in BOOLEAN,
          opt \in CurveFitOutcomes :
        Called("fitbetter", f,
               [flags EXCEPT !.showdata = sd, !.show_diagnostics = diag], opt,
               fitbetter(xdata, ydata, f, fitparams, domain,
                         [flags EXCEPT !.showdata = sd, !.show_diagnostics = diag],
                         opt))

CallFitlor ==
    /\ fn = "none"
    /\ Tried({3, 4, 5})
    /\ \E v \in BOOLEAN, opt \in CurveFitOutcomes :
        Called("fitlor", "lorfunc_better", [flags EXCEPT !.verbose = v], opt,
               fitlor(xdata, ydata, fitparams, domain,
                      [flags EXCEPT !.verbose = v], opt))

CallFitKineticFraction ==
    /\ fn = "none"
    /\ Tried({1, 2, 3, 4})
    /\ \E tc \in BOOLEAN, opt \in LeastsqOutcomes :
        Called("fit_kinetic_fraction", "kinfunc", [flags EXCEPT !.Tc_fixed = tc], opt,
               fit_kinetic_fraction(xdata, ydata, fitparams, domain,
                                    [flags EXCEPT !.Tc_fixed = tc], opt))

CallFitDoubleLor ==
    /\ fn = "none"
    /\ Tried({7})
    /\ \E opt \in LeastsqOutcomes :
        Called("fit_double_lor", "twolorfunc", flags, opt,
               fit_double_lor(xdata, ydata, fitparams, domain, flags, opt))

CallFitNGauss ==
    /\ fn = "none"
    /\ Tried({3, 4, 5, 7})
    /\ \E no \in BOOLEAN, opt \in LeastsqOutcomes :
        Called("fit_N_gauss", IF no THEN "Ngaussfunc_no_offset" ELSE "Ngaussfunc",
               [flags EXCEPT !.no_offset = no], opt,
               fit_N_gauss(xdata, ydata, fitparams, domain,
                           [flags EXCEPT !.no_offset = no], opt))

CallFitgauss ==
    /\ fn = "none"
    /\ Tried({3, 4})
    /\ \E no \in BOOLEAN, opt \in LeastsqOutcomes :
        Called("fitgauss", IF no THEN "gaussfunc_nooffset" ELSE "gaussfunc",
               [flags EXCEPT !.no_offset = no], opt,
               fitgauss(xdata, ydata, fitparams, domain,
                        [flags EXCEPT !.no_offset = no], opt))

CallFithanger ==
    /\ fn = "none"
    /\ Tried({4, 5, 6})
    /\ \E pr \in BOOLEAN, opt \in LeastsqOutcomes :
        Called("fithanger", "hangerfunc", [flags EXCEPT !.printresult = pr], opt,
               fithanger(xdata, ydata, fitparams, domain,
                         [flags EXCEPT !.printresult = pr], opt))

CallFitParabola ==
    /\ fn = "none"
    /\ Tried({2, 3, 4})
    /\ \E v \in BOOLEAN, opt \in CurveFitOutcomes :
        Called("fit_parabola", "parabolafunc", [flags EXCEPT !.verbose = v], opt,
               fit_parabola(xdata, ydata, fitparams, domain,
                            [flags EXCEPT !.verbose = v], opt))

CallFitpoly ==
    /\ fn = "none"
    /\ Tried({1, 3})
    /\ \E v \in BOOLEAN, opt \in CurveFitOutcomes :
        Called("fitpoly", "polyfunc_v2", [flags EXCEPT !.verbose = v], opt,
               fitpoly(xdata, ydata, fitparams, domain,
                       [flags EXCEPT !.verbose = v], opt))

Next ==
    \/ CallFitgeneral
    \/ CallFitbetter
    \/ CallFitlor
    \/ CallFitKineticFraction
    \/ CallFitDoubleLor
    \/ CallFitNGauss
    \/ CallFitgauss
    \/ CallFithanger
    \/ CallFitParabola
    \/ CallFitpoly

Spec == Init /\ [][Next]_vars

----------------------------------------------------------------------------
(* C1-C2: DomainSelector *)

\* the elements of s at the positions of x whose value v has lo <= v < hi
RECURSIVE KeepInRange(_, _, _, _)
KeepInRange(x, s, lo, hi) ==
    IF x = <<>> THEN <<>>
    ELSE (IF lo <= Head(x) /\ Head(x) < hi THEN <<Head(s)>> ELSE <<>>)
         \o KeepInRange(Tail(x), Tail(s), lo, hi)

InRangePositions(x, lo, hi) == {i \in 1..Len(x) : lo <= x[i] /\ x[i] < hi}

IsInterval(S) == \A i \in S, j \in S : \A k \in i..j : k \in S

\* C1: for sorted x and lo <= hi, selectdomain returns exactly the elements of
\* x with lo <= x < hi, a contiguous run of x, and the y values at the same
\* indices.
C1_SelectExact ==
    (fn = "selectdomain" /\ domain[1] <= domain[2]) =>
        /\ result.value[1] = KeepInRange(xdata, xdata, domain[1], domain[2])
        /\ result.value[2] = KeepInRange(xdata, ydata, domain[1], domain[2])
        /\ IsInterval(InRangePositions(xdata, domain[1], domain[2]))

C1_Witness ==
    /\ fn = "selectdomain"
    /\ domain[1] < domain[2]
    /\ Len(xdata) = 3
    /\ Len(result.value[1]) = 1
    /\ xdata[1] < domain[1]
    /\ xdata[3] >= domain[2]
    /\ result.value[2] = <<ydata[2]>>

Min(s) == CHOOSE v \in {s[i] : i \in 1..Len(s)} : \A j \in 1..Len(s) : v <= s[j]
Max(s) == CHOOSE v \in {s[i] : i \in 1..Len(s)} : \A j \in 1..Len(s) : v >= s[j]

FullRange(x) == <<Min(x), Max(x)>>

\* C2 as claimed: restricting a non-empty sorted x to (min(x), max(x)) returns
\* x and y unchanged.
C2_FullRangeUnchanged ==
    (fn = "selectdomain" /\ xdata # <<>> /\ domain = FullRange(xdata)) =>
        result.value = <<xdata, ydata>>

\* C2 amended: restricting a non-empty sorted x to (min(x), max(x)) returns
\* the leading elements of x that are strictly below max(x), and the y values
\* at the same indices; every element equal to max(x) is dropped.
C2_FullRangeDropsMax ==
    (fn = "selectdomain" /\ xdata # <<>> /\ domain = FullRange(xdata)) =>
        LET k == Cardinality({i \in 1..Len(xdata) : xdata[i] < Max(xdata)})
        IN  /\ result.value = <<SubSeq(xdata, 1, k), SubSeq(ydata, 1, k)>>
            /\ k < Len(xdata)

C2_Witness ==
    /\ fn = "selectdomain"
    /\ Len(xdata) = 3
    /\ domain = FullRange(xdata)
    /\ Len(result.value[1]) = 2

----------------------------------------------------------------------------
(* C3-C5: GoodnessOfFit *)

AllEqual(s) == \A i \in 1..Len(s), j \in 1..Len(s) : s[i] = s[j]
FitIsMean == \A i \in 1..Len(ydatafit) : ydatafit[i] = mean(ydata)

\* C3 as claimed: R^2 of a perfect fit is exactly 1 and R^2 of the constant
\* mean fit is exactly 0, for every observed sequence.
C3_RsquareExact ==
    (fn = "get_rsquare") =>
        /\ (ydatafit = ydata => result = Return(R(1)))
        /\ (FitIsMean => result = Return(R(0)))

\* C3 amended: the same, for every observed sequence whose values are not all
\* equal (non-zero total variance).
C3_RsquareExactNonDegenerate ==
    (fn = "get_rsquare" /\ ~AllEqual(ydata)) =>
        /\ (ydatafit = ydata => result = Return(R(1)))
        /\ (FitIsMean => result = Return(R(0)))

C3_Witness ==
    /\ fn = "get_rsquare"
    /\ ~AllEqual(ydata)
    /\ FitIsMean
    /\ Len(ydata) = 3
    /\ result = Return(R(0))

\* C4 as claimed, on the calls whose result is a number (non-zero total
\* variance): the value returned by get_rsquare lies in [0, 1].
C4_RsquareInUnitInterval ==
    (fn = "get_rsquare" /\ ~AllEqual(ydata)) =>
        /\ result.kind = "return"
        /\ FLeq(R(0), result.value)
        /\ FLeq(result.value, R(1))

\* C5: with all observed values equal (zero total variance) get_rsquare does
\* not raise; it returns an infinite or NaN value, whatever the fitted values.
C5_ZeroVarianceSentinel ==
    (fn = "get_rsquare" /\ AllEqual(ydata)) =>
        /\ result.kind = "return"
        /\ (IsNaN(result.value) \/ IsInf(result.value))

C5_Witness ==
    /\ fn = "get_rsquare"
    /\ AllEqual(ydata)
    /\ Len(ydata) = 3
    /\ ydatafit # ydata
    /\ result = Return(NegInf)

----------------------------------------------------------------------------
(* C6-C10: the fit wrappers and the two engines *)

Has(ev, e) == \E i \in 1..Len(ev) : ev[i] = e

\* C6: in every call of fitlor that returns, the half-width-at-half-max entry
\* (index 3) of the returned parameters is non-negative, the absolute value of
\* what the optimizer produced, and the other three entries are returned as
\* the optimizer produced them.
C6_HwhmNonNegative ==
    (fn = "fitlor" /\ result.kind = "return") =>
        /\ Len(result.value.params) = 4
        /\ FLeq(R(0), result.value.params[4])
        /\ result.value.params[4] = FAbs(Popt(outcome, 4)[4])
        /\ \A i \in 1..3 : result.value.params[i] = Popt(outcome, 4)[i]

C6_Witness ==
    /\ fn = "fitlor"
    /\ result.kind = "return"
    /\ outcome.sign = -1
    /\ result.value.params = <<R(-1), R(-2), R(-3), R(4)>>

\* the wrappers that have no initial-guess heuristic
NoHeuristicWrappers ==
    {"fit_kinetic_fraction", "fit_double_lor", "fit_N_gauss", "fit_parabola", "fitpoly"}

\* C7 as claimed: a call of a wrapper without heuristic with fitparams None
\* ends in an error and never returns normally, and no optimizer is run in
\* that call.
C7_MissingGuessRejected ==
    (fn \in NoHeuristicWrappers /\ ~fitparams.given) =>
        /\ result.kind = "raise"
        /\ ~Has(events, "leastsq")
        /\ ~Has(events, "curve_fit")

\* the parameter vector a wrapper hands to the engine
Supplied ==
    IF fn = "fit_kinetic_fraction" /\ flags.Tc_fixed
    THEN Slice(fitparams.v, 0, 2) ELSE fitparams.v

\* the lengths the docstring of a lineshape model gives for p
ExpectedLengths(f) ==
    CASE f = "kinfunc" -> {2, 3}
      [] f = "Ngaussfunc" -> {1 + 3 * N : N \in 1..MaxParams}
      [] f = "hangerfunc" -> {5}

\* C8 as claimed, in its last clause: a fit of kinfunc, Ngaussfunc or
\* hangerfunc with a parameter vector of a length the model does not expect
\* ends in an error; it is never accepted and fitted.
C8_LengthMismatchRejected ==
    (/\ fn # "none"
     /\ model \in {"kinfunc", "Ngaussfunc", "hangerfunc"}
     /\ fitparams.given
     /\ Len(Supplied) \notin ExpectedLengths(model)) =>
        result.kind = "raise"

\* the functions that fit with the covariance strategy
FitbetterBased == {"fitbetter", "fitlor", "fit_parabola", "fitpoly"}

\* curve_fit returned an estimate and the standard errors could not be
\* computed from its covariance (np.diag raises on the scalar only): the two
\* lines of the failure message follow the fit
ErrorsFailed ==
    /\ outcome.cov = "inf_scalar"
    /\ \E i \in 1..(Len(events) - 2) :
           /\ events[i] = "curve_fit"
           /\ events[i + 1] = "print"
           /\ events[i + 2] = "print"

\* the optimizer's estimate of n parameters as the caller of fn receives it:
\* fitlor hands on the half width (index 3) as its absolute value
BestFitReturned(n) ==
    IF fn = "fitlor" /\ n = 4
    THEN [Popt(outcome, n) EXCEPT ![4] = FAbs(@)]
    ELSE Popt(outcome, n)

\* C9 as claimed, on the calls that draw no plot: when curve_fit has produced
\* an estimate and the standard errors cannot be computed, the call returns
\* the best-fit parameters, for show_diagnostics true and false.
C9_ParamsStillReturned ==
    (fn \in FitbetterBased /\ ~flags.showfit /\ ErrorsFailed) =>
        /\ result.kind = "return"
        /\ result.value.params # <<>>
        /\ result.value.params = BestFitReturned(Len(result.value.params))

Engines == {"fitgeneral", "fitbetter"}

\* C10 as claimed: an engine call that returns gives the bare best-fit vector
\* when show_diagnostics is false, and otherwise a tuple of that vector and a
\* standard-error vector of the same length, with or without a success flag.
C10_DiagnosticsTuple ==
    (fn \in Engines /\ result.kind = "return") =>
        /\ result.value.params = Popt(outcome, Len(result.value.params))
        /\ result.value.params # <<>>
        /\ ~flags.show_diagnostics => result.value.shape = "vector"
        /\ flags.show_diagnostics =>
            /\ result.value.shape \in {"tuple2", "tuple3"}
            /\ Len(result.value.errors) = Len(result.value.params)

\* C10 amended: an engine call that returns gives the bare best-fit vector
\* when show_diagnostics is false; when it is true, fitbetter gives the pair
\* of that vector and a standard-error vector of the same length, and
\* fitgeneral gives the triple of that vector, one float (the sum of the
\* residuals) and the optimizer's status flag, and no standard-error vector.
C10_DiagnosticsByEngine ==
    (fn \in Engines /\ result.kind = "return") =>
        /\ result.value.params = Popt(outcome, Len(result.value.params))
        /\ result.value.params # <<>>
        /\ ~flags.show_diagnostics => result.value.shape = "vector"
        /\ (flags.show_diagnostics /\ fn = "fitbetter") =>
            /\ result.value.shape = "tuple2"
            /\ Len(result.value.errors) = Len(result.value.params)
        /\ (flags.show_diagnostics /\ fn = "fitgeneral") =>
            /\ result.value.shape = "tuple3"
            /\ result.value.err = "float"
            /\ result.value.errors = <<>>
            /\ result.value.success = outcome.ier

C10_Witness ==
    /\ fn = "fitgeneral"
    /\ flags.show_diagnostics
    /\ result.kind = "return"
    /\ result.value.shape = "tuple3"
    /\ Len(result.value.params) = 5
    /\ result.value.success = 5

----------------------------------------------------------------------------
(* C11-C12: visualization *)

IsPlot(e) == e \in {"plot data", "plot startfit", "plot fit"}

\* the plot requests of a call, in order
Plots(ev) == SelectSeq(ev, IsPlot)

\* the plot requests the flags ask for
ExpectedPlots(fl) ==
    IF ~fl.showfit THEN <<>>
    ELSE (IF fl.showdata THEN <<"plot data">> ELSE <<>>)
         \o (IF fl.showstartfit THEN <<"plot startfit">> ELSE <<>>)
         \o <<"plot fit">>

\* the number of parameters of the models the engine actions fit
Arity(f) ==
    CASE f = "kinfunc" -> 3
      [] f = "hangerfunc" -> 5
      [] f = "lorfunc_better" -> 4
      [] f = "parabolafunc" -> 3

\* an engine call whose optimizer returns an estimate: a start vector of the
\* model's length, at least as many data points as parameters, convergence
EngineFits ==
    /\ fn \in Engines
    /\ fitparams.given
    /\ Len(fitparams.v) = Arity(model)
    /\ Len(Restrict(xdata, ydata, domain)[1]) >= Len(fitparams.v)
    /\ outcome.ier = 1

\* every plot request comes after the optimizer was called
PlotsAfterOptimizer ==
    \A i \in 1..Len(events) : IsPlot(events[i]) =>
        \E j \in 1..(i - 1) : events[j] \in {"leastsq", "curve_fit"}

\* C11 as claimed: a fit call with showfit false issues no plot request; an
\* engine call with showfit true whose optimizer returns issues the requests
\* raw data (iff showdata), initial-guess curve (iff showstartfit), best-fit
\* curve (always), in this order, all of them after the optimizer.
C11_PlotRequests ==
    /\ (fn # "none" /\ ~flags.showfit) => Plots(events) = <<>>
    /\ (EngineFits /\ flags.showfit) =>
        /\ Plots(events) = ExpectedPlots(flags)
        /\ PlotsAfterOptimizer


\* the engine call of this state repeated with showfit false
QuietCall ==
    IF fn = "fitgeneral"
    THEN fitgeneral(xdata, ydata, model, fitparams, domain,
                    [flags EXCEPT !.showfit = FALSE], outcome)
    ELSE fitbetter(xdata, ydata, model, fitparams, domain,
                   [flags EXCEPT !.showfit = FALSE], outcome)

\* C12 as claimed: with a sink that does nothing, an engine call with showfit
\* true ends as the same call with showfit false ends: it returns the same
\* value whenever that call returns.
C12_ShowfitSameOutcome ==
    (fn \in Engines /\ flags.showfit /\ QuietCall.kind = "return") =>
        /\ result.kind = "return"
        /\ result.value = QuietCall.value

----------------------------------------------------------------------------
(* C14: ownership *)

\* C14: no fit call, returning or failing, changes the caller's xdata, ydata
\* or fitparams: every element written during a call belongs to a list or
\* array made in that call (the guess, the optimizer's estimate).
C14_InputsUnchanged ==
    [][xdata' = xdata /\ ydata' = ydata /\ fitparams' = fitparams]_vars

C14_Witness ==
    /\ fn = "fitlor"
    /\ fitparams = Given(StartVector(4))
    /\ result.kind = "return"
    /\ result.value.params = <<R(-1), R(-2), R(-3), R(4)>>

----------------------------------------------------------------------------
(* Specification SpecNgauss: one evaluation of Ngaussfunc_no_offset on a   *)
(* parameter vector of length 3N                                           *)

\* the most peaks of a parameter vector
MaxPeaks == 2

InitNgauss ==
    /\ fn = "none"
    /\ xdata \in {<<x>> : x \in 0..1}
    /\ ydata = <<>>
    /\ ydatafit = <<>>
    /\ domain = <<>>
    /\ \E N \in 1..MaxPeaks :
          fitparams \in {Given(p) : p \in [1..(3 * N) -> {R(v) : v \in 1..MaxVal}]}
    /\ flags = BaseFlags
    /\ model = ""
    /\ outcome = NoOutcome
    /\ result = NoResult
    /\ events = <<>>

CallNgaussfuncNoOffset ==
    /\ fn = "none"
    /\ fn' = "Ngaussfunc_no_offset"
    /\ model' = "Ngaussfunc_no_offset"
    /\ result' = Ngaussfunc_no_offset(fitparams.v, R(xdata[1]))
    /\ UNCHANGED <<xdata, ydata, domain, ydatafit, fitparams, flags, outcome, events>>

NextNgauss == CallNgaussfuncNoOffset

SpecNgauss == InitNgauss /\ [][NextNgauss]_vars

\* C15 as claimed: for p = [A1, f1, sigma1, ..., AN, fN, sigmaN] of length 3N,
\* Ngaussfunc_no_offset(p, x) is the sum of len(p)/3 terms, and term i takes
\* its amplitude, center and sigma from positions 3i, 3i+1, 3i+2 of p
\* (counted from 0).
C15_NoOffsetSumsAllPeaks ==
    (fn = "Ngaussfunc_no_offset") =>
        result = Return([offset |-> R(0),
                         terms |-> [i \in 1..(Len(fitparams.v) \div 3) |->
                            GaussTerm(R(xdata[1]), fitparams.v[3 * i - 2],
                                      fitparams.v[3 * i - 1], fitparams.v[3 * i])]])

----------------------------------------------------------------------------
(* C16: the steps of a wrapper call *)

Wrappers ==
    {"fitlor", "fit_kinetic_fraction", "fit_double_lor", "fit_N_gauss", "fitgauss",
     "fithanger", "fit_parabola", "fitpoly"}

IsEngine(e) == e \in Engines

\* what a wrapper does before it invokes the engine
StepsBeforeEngine ==
    <<fn>> \o (IF domain # <<>> THEN <<"selectdomain">> ELSE <<>>)
           \o (IF ~fitparams.given THEN <<"guess">> ELSE <<>>)

\* C16 as claimed: a wrapper call that returns has selected the domain iff
\* one was given, then run the heuristic iff fitparams was None, then invoked
\* the engine, and it has invoked the engine exactly once.
C16_StepOrder ==
    (fn \in Wrappers /\ result.kind = "return") =>
        /\ Len(events) > Len(StepsBeforeEngine)
        /\ SubSeq(events, 1, Len(StepsBeforeEngine)) = StepsBeforeEngine
        /\ IsEngine(events[Len(StepsBeforeEngine) + 1])
        /\ Len(SelectSeq(events, IsEngine)) = 1

----------------------------------------------------------------------------
(* Specification SpecGuess: a call of fitlor or fitgauss with fitparams    *)
(* None, up to the end of the heuristic (lines 150-160, 407-417); result   *)
(* is the guess.                                                           *)

InitGuess ==
    /\ fn = "none"
    /\ xdata \in {s \in SeqsUpTo(0..MaxVal, MaxLen) : IsSorted(s)}
    /\ ydata \in [1..Len(xdata) -> 0..MaxR]
    /\ domain \in {<<>>} \cup {d \in (0..(MaxVal + 1)) \X (0..(MaxVal + 1)) : d[1] < d[2]}
    /\ ydatafit = <<>>
    /\ fitparams = NoParams
    /\ flags = BaseFlags
    /\ model = ""
    /\ outcome = NoOutcome
    /\ result = NoResult
    /\ events = <<>>

\* the wrapper name, whose heuristic divides the span of x by width
Guessed(name, f, width) ==
    /\ fn = "none"
    /\ fn' = name
    /\ model' = f
    /\ result' = StartParams(fitparams,
                             peak_guess(Restrict(xdata, ydata, domain)[1],
                                        Restrict(xdata, ydata, domain)[2], width))
    /\ events' = <<name>> \o RestrictEvents(domain) \o GuessEvents(fitparams)
    /\ UNCHANGED <<xdata, ydata, domain, ydatafit, fitparams, flags, outcome>>

GuessFitlor == Guessed("fitlor", "lorfunc_better", 10)

GuessFitgauss == Guessed("fitgauss", "gaussfunc", 3)

NextGuess == GuessFitlor \/ GuessFitgauss

SpecGuess == InitGuess /\ [][NextGuess]_vars

\* the data the fit runs on: xdata, ydata with lo <= x < hi when a domain is
\* given
RestrictedX == IF domain = <<>> THEN xdata ELSE KeepInRange(xdata, xdata, domain[1], domain[2])
RestrictedY == IF domain = <<>> THEN ydata ELSE KeepInRange(xdata, ydata, domain[1], domain[2])

\* the positions at which y is largest
PeakPositions(y) == {i \in 1..Len(y) : y[i] = Max(y)}

\* C17: when the largest y of the restricted data is attained at exactly one
\* point x_c, the guess of fitlor and of fitgauss has center x_c, amplitude
\* max(y) - min(y) and offset (first y + last y)/2, all over the restricted
\* data.
C17_PeakGuess ==
    (/\ fn \in {"fitlor", "fitgauss"}
     /\ RestrictedY # <<>>
     /\ Cardinality(PeakPositions(RestrictedY)) = 1) =>
        /\ result.kind = "return"
        /\ \A i \in PeakPositions(RestrictedY) : result.value[3] = R(RestrictedX[i])
        /\ result.value[2] = R(Max(RestrictedY) - Min(RestrictedY))
        /\ FMul(R(2), result.value[1])
              = R(RestrictedY[1] + RestrictedY[Len(RestrictedY)])

C17_Witness ==
    /\ fn = "fitgauss"
    /\ xdata = <<0, 1, 2>>
    /\ ydata = <<1, 0, 1>>
    /\ domain = <<1, 3>>
    /\ result = Return(<< <<1, 2>>, R(1), R(2), <<1, 3>> >>)

----------------------------------------------------------------------------
(* C18: fit_double_lor *)

\* C18 as claimed: a call of fit_double_lor with a 7-element initial guess, at
\* least 7 data points and an optimizer that converges, drawing no plot, runs
\* the optimizer and returns a 7-element parameter vector.
C18_DoubleLorFits ==
    (/\ fn = "fit_double_lor"
     /\ fitparams.given
     /\ Len(fitparams.v) = 7
     /\ Len(RestrictedX) >= 7
     /\ outcome.ier = 1
     /\ ~flags.showfit) =>
        /\ result.kind = "return"
        /\ Len(result.value.params) = 7
        /\ Has(events, "leastsq")

----------------------------------------------------------------------------
(* C19: selecting the domain twice *)

\* C19: for sorted x and every domain d, selectdomain applied with d to the
\* output of selectdomain(x, y, d) returns that output unchanged, and so does
\* the restriction fitgeneral applies to the data fithanger hands it.
C19_SelectIdempotent ==
    (fn = "selectdomain") =>
        /\ selectdomain(result.value[1], result.value[2], domain) = result.value
        /\ Restrict(result.value[1], result.value[2], domain) = result.value

C19_Witness ==
    /\ fn = "selectdomain"
    /\ xdata = <<0, 1, 2>>
    /\ ydata = <<0, 1, 0>>
    /\ domain = <<1, 3>>
    /\ result.value = << <<1, 2>>, <<1, 0>> >>

=============================================================================
